---- MODULE Spec2Model ----
(***************************************************************************)
(* State-machine model of tools/python/util/onnx_model_utils.py:           *)
(*   - the producer/consumer analysis (get_producer_consumer_maps and the  *)
(*     recursive _map_node_dependencies), specification Spec;              *)
(*   - the node traversal iterate_graph_per_node_func, SpecTraverse;       *)
(*   - the dimension fixer (_make_dim_param_fixed and                      *)
(*     _make_input_shape_fixed), SpecDims;                                 *)
(*   - the predicate is_fixed_size_tensor, SpecFixed.                      *)
(*                                                                         *)
(* Value names and symbolic dimension names are modelled by their rank in  *)
(* Python's string order: the empty string is 0 and the non-empty names    *)
(* are 1, 2, ... in ascending order, so sorted() is the ascending order of *)
(* the ranks.  Nodes and graphs are identified by an index (NodeProto is   *)
(* hashed by id(), line 266): nodes of equal content are different keys.   *)
(***************************************************************************)
EXTENDS Integers, Sequences, FiniteSets, TLC

\* ------------------------------------------------------------------ bounds
MaxNodes == 3       \* nodes of a graph, its subgraphs included
MaxSize == 3        \* name occurrences and non-graph attributes of a graph
MaxInfos == 2       \* value infos of a graph, its subgraphs included
MaxDims == 2        \* dimensions of all value infos together; rank of a request
MaxRank == 3        \* rank of the value given to is_fixed_size_tensor
Empty == 0          \* the empty string: a missing optional input

Names == {1, 2}
SubIds == {1}
TraverseSubIds == {1, 2}
NodeIds == 1..MaxNodes
Root == 0

VARIABLES
    graph,              \* graph id -> [input, initializer: sets of names, node: list of node ids]
    node,               \* node id -> [input, output: lists of names, attribute: list of attributes]
    stack,              \* the active calls of _map_node_dependencies, innermost last
    node_to_producers,  \* dict: node -> set of nodes
    node_to_consumers,  \* dict: node -> set of nodes
    returned,           \* graph id -> the implicit inputs _map_node_dependencies returned for it
    result,             \* "running", "returned" or "raised" (get_producer_consumer_maps)
    message,            \* the names joined into the ValueError's message, in order
    run,                \* 1: the first call; 2: the call after one root input was removed
    removed,            \* the name of the removed root input (Empty in run 1)
    tstack,             \* the active calls of iterate_graph_per_node_func
    visited,            \* the nodes per_node_func was called with, in call order
    first_pass,         \* the calls of the first traversal
    pass,               \* 1, 2: the traversal running; 3: both done
    tensors,            \* graph id -> [input, output, value_info: lists of value infos]
    before,             \* tensors when the dimension fixer was called
    call,               \* the dimension fixer's arguments
    pc,                 \* "start", "loop" or "done"
    idx,                \* idx of _make_input_shape_fixed (line 151)
    target,             \* position in graph.input of the input being fixed
    outcome,            \* "none", "returned" or the ValueError raised
    value,              \* the argument of is_fixed_size_tensor
    is_fixed,           \* its local is_fixed
    fpc,                \* "start", "dims" or "done"
    fidx                \* position in shape.dim of the loop of line 293

depVars == <<stack, node_to_producers, node_to_consumers, returned, result,
             message, run, removed>>
travVars == <<tstack, visited, first_pass, pass>>
dimVars == <<tensors, before, call, pc, idx, target, outcome>>
fixVars == <<value, is_fixed, fpc, fidx>>
vars == <<graph, node, depVars, travVars, dimVars, fixVars>>

\* ----------------------------------------------------------------- helpers
Range(s) == {s[i] : i \in DOMAIN s}

Get(d, k) == IF k \in DOMAIN d THEN d[k] ELSE {}

NoDict == [k \in {} |-> {}]

\* An attribute either holds a graph (HasField('g')) or something else.
GraphAttr(g) == [hasG |-> TRUE, g |-> g]
OtherAttr == [hasG |-> FALSE, g |-> Root]

\* All orders in which a set can be iterated (inputs += set, line 226).
Orders(S) == {s \in [1..Cardinality(S) -> S] : Range(s) = S}

RECURSIVE Concat(_)
Concat(ss) == IF ss = <<>> THEN <<>> ELSE Head(ss) \o Concat(Tail(ss))

sorted_descending(S) ==
    LET n == Cardinality(S)
    IN  CHOOSE s \in [1..n -> S] : \A i \in 1..n, j \in 1..n : i < j => s[i] > s[j]

RECURSIVE sorted(_)
sorted(S) ==
    IF S = {} THEN <<>>
    ELSE LET m == CHOOSE x \in S : \A y \in S : x <= y
         IN  <<m>> \o sorted(S \ {m})

\* The states of the variables of the operations a specification leaves alone.
IdleDependencies ==
    /\ stack = <<>> /\ node_to_producers = NoDict /\ node_to_consumers = NoDict
    /\ returned = [g \in DOMAIN graph |-> {}]
    /\ result = "idle" /\ message = <<>> /\ run = 0 /\ removed = Empty
IdleTraversal == tstack = <<>> /\ visited = <<>> /\ first_pass = <<>> /\ pass = 0
IdleDims ==
    /\ tensors = <<>> /\ before = <<>> /\ call = <<>> /\ pc = "idle"
    /\ idx = 0 /\ target = 0 /\ outcome = "none"
IdleFixed == value = <<>> /\ is_fixed = FALSE /\ fpc = "idle" /\ fidx = 0

\* ------------------------------------------- _create_producer_consumer_link
link_producers_only(ntp, ntc, producer, consumer) ==
    LET p1 == [k \in DOMAIN ntp \cup {consumer} |-> Get(ntp, k)]
    IN  [producers |-> [p1 EXCEPT ![consumer] = @ \cup {producer}],
         consumers |-> [k \in DOMAIN ntc \cup {producer} |-> Get(ntc, k)]]

create_producer_consumer_link(ntp, ntc, producer, consumer) ==
    LET p1 == IF consumer \in DOMAIN ntp THEN ntp
              ELSE [k \in DOMAIN ntp \cup {consumer} |-> Get(ntp, k)]
        c1 == IF producer \in DOMAIN ntc THEN ntc
              ELSE [k \in DOMAIN ntc \cup {producer} |-> Get(ntc, k)]
    IN  [producers |-> [p1 EXCEPT ![consumer] = @ \cup {producer}],
         consumers |-> [c1 EXCEPT ![producer] = @ \cup {consumer}]]

\* --------------------------------------------------- _map_node_dependencies
NodesOf(g) == graph[g].node

\* The frame of one call, positioned at node number i of the graph's list.
Frame(g, i, producers, implicit_inputs) ==
    [g |-> g, idx |-> i, attr |-> 1, k |-> 1,
     inputs |-> IF i <= Len(NodesOf(g)) THEN node[NodesOf(g)[i]].input ELSE <<>>,
     producers |-> producers, implicit_inputs |-> implicit_inputs]

Top == stack[Len(stack)]
CurNode == NodesOf(Top.g)[Top.idx]
InLoop == stack # <<>> /\ Top.idx <= Len(NodesOf(Top.g))

\* The index of the next attribute of n, from position `from`, that holds a graph;
\* 0 when there is none (for attr in node.attribute: if attr.HasField('g')).
NextG_stops_at_other(n, from) ==
    LET A == node[n].attribute
    IN  IF from <= Len(A) /\ A[from].hasG THEN from ELSE 0

NextG(n, from) ==
    LET A == node[n].attribute
        H == {i \in from..Len(A) : A[i].hasG}
    IN  IF H = {} THEN 0 ELSE CHOOSE i \in H : \A j \in H : i <= j

is_local_value_without_initializers(f, v) ==
    v \in DOMAIN f.producers \/ v \in graph[f.g].input

is_local_value(f, v) ==
    v \in DOMAIN f.producers \/ v \in graph[f.g].initializer
        \/ v \in graph[f.g].input

ReplaceTop(f) == [stack EXCEPT ![Len(stack)] = f]

\* line 225: the recursive call for the next graph-valued attribute
Descend ==
    /\ result = "running" /\ InLoop
    /\ NextG(CurNode, Top.attr) # 0
    /\ LET a == NextG(CurNode, Top.attr)
       IN  stack' = Append(ReplaceTop([Top EXCEPT !.attr = a + 1]),
                           Frame(node[CurNode].attribute[a].g, 1, NoDict, {}))
    /\ UNCHANGED <<graph, node, node_to_producers, node_to_consumers, returned,
                   result, message, run, removed, travVars, dimVars, fixVars>>

\* lines 245 and 226: a nested call returns; its implicit inputs are appended
\* to the inputs of the node holding the subgraph, in the set's iteration order
Return_drops_implicit_inputs ==
    /\ result = "running" /\ Len(stack) > 1
    /\ Top.idx > Len(NodesOf(Top.g))
    /\ stack' = SubSeq(stack, 1, Len(stack) - 1)
    /\ returned' = [returned EXCEPT ![Top.g] = Top.implicit_inputs]
    /\ UNCHANGED <<graph, node, node_to_producers, node_to_consumers,
                   result, message, run, removed, travVars, dimVars, fixVars>>

Return ==
    /\ result = "running" /\ Len(stack) > 1
    /\ Top.idx > Len(NodesOf(Top.g))
    /\ \E order \in Orders(Top.implicit_inputs) :
         LET caller == stack[Len(stack) - 1]
             rest == SubSeq(stack, 1, Len(stack) - 1)
         IN  stack' = [rest EXCEPT ![Len(rest)] =
                          [caller EXCEPT !.inputs = @ \o order]]
    /\ returned' = [returned EXCEPT ![Top.g] = Top.implicit_inputs]
    /\ UNCHANGED <<graph, node, node_to_producers, node_to_consumers,
                   result, message, run, removed, travVars, dimVars, fixVars>>

\* lines 228-240: one iteration of `for i in inputs`
ProcessInput ==
    /\ result = "running" /\ InLoop
    /\ NextG(CurNode, Top.attr) = 0
    /\ Top.k <= Len(Top.inputs)
    /\ LET i == Top.inputs[Top.k]
           f == [Top EXCEPT !.k = @ + 1]
       IN  IF i = Empty
           THEN /\ stack' = ReplaceTop(f)
                /\ UNCHANGED <<node_to_producers, node_to_consumers>>
           ELSE IF is_local_value(Top, i)
           THEN /\ stack' = ReplaceTop(f)
                /\ IF i \in DOMAIN Top.producers
                   THEN LET l == create_producer_consumer_link(
                                     node_to_producers, node_to_consumers,
                                     Top.producers[i], CurNode)
                        IN  /\ node_to_producers' = l.producers
                            /\ node_to_consumers' = l.consumers
                   ELSE UNCHANGED <<node_to_producers, node_to_consumers>>
           ELSE /\ stack' = ReplaceTop([f EXCEPT !.implicit_inputs = @ \cup {i}])
                /\ UNCHANGED <<node_to_producers, node_to_consumers>>
    /\ UNCHANGED <<graph, node, returned, result, message, run, removed,
                   travVars, dimVars, fixVars>>

\* lines 242-243: producers[o] = node for every output o of node n
record_outputs_first_wins(producers, n) ==
    LET O == Range(node[n].output)
    IN  [x \in DOMAIN producers \cup O |->
            IF x \in DOMAIN producers THEN producers[x] ELSE n]

record_outputs(producers, n) ==
    LET O == Range(node[n].output)
    IN  [x \in DOMAIN producers \cup O |-> IF x \in O THEN n ELSE producers[x]]

\* lines 242-243, then the next iteration of `for node in graph.node`
RecordOutputs ==
    /\ result = "running" /\ InLoop
    /\ NextG(CurNode, Top.attr) = 0
    /\ Top.k > Len(Top.inputs)
    /\ stack' = ReplaceTop(Frame(Top.g, Top.idx + 1,
                                 record_outputs(Top.producers, CurNode),
                                 Top.implicit_inputs))
    /\ UNCHANGED <<graph, node, node_to_producers, node_to_consumers, returned,
                   result, message, run, removed, travVars, dimVars, fixVars>>

\* line 276: sorted(implicit_inputs), joined with ","
error_names_unsorted(implicit_inputs) == sorted_descending(implicit_inputs)

error_names(implicit_inputs) == sorted(implicit_inputs)

\* lines 271-278: the root call returns to get_producer_consumer_maps
Finish ==
    /\ result = "running" /\ Len(stack) = 1
    /\ Top.idx > Len(NodesOf(Top.g))
    /\ returned' = [returned EXCEPT ![Root] = Top.implicit_inputs]
    /\ IF Top.implicit_inputs # {}
       THEN result' = "raised" /\ message' = error_names(Top.implicit_inputs)
       ELSE result' = "returned" /\ message' = <<>>
    /\ stack' = <<>>
    /\ UNCHANGED <<graph, node, node_to_producers, node_to_consumers, run, removed,
                   travVars, dimVars, fixVars>>

\* A declared input of the accepted root graph is removed and the graph is
\* analysed again (a new call of get_producer_consumer_maps, lines 268-271).
RemoveInputAndRerun ==
    /\ run = 1 /\ result = "returned"
    /\ \E x \in graph[Root].input :
         /\ graph' = [graph EXCEPT ![Root].input = @ \ {x}]
         /\ removed' = x
    /\ run' = 2
    /\ stack' = <<Frame(Root, 1, NoDict, {})>>
    /\ node_to_producers' = NoDict /\ node_to_consumers' = NoDict
    /\ returned' = [g \in DOMAIN graph |-> {}]
    /\ result' = "running" /\ message' = <<>>
    /\ UNCHANGED <<node, travVars, dimVars, fixVars>>

\* ------------------------------------------------------------ initial graphs
\* A shape places the nodes in graphs: parent[n] is the graph whose node list
\* holds n, owner[s] the node that holds subgraph s in an attribute.
\* The nodes of a shape in document order: each node, then the nodes of the
\* subgraphs its attributes hold, then its next sibling.
RECURSIVE DocumentOrder(_, _)
DocumentOrder(sh, g) ==
    LET L == sorted({n \in NodeIds : sh.parent[n] = g})
        below(n) == LET owned == sorted({s \in DOMAIN sh.owner : sh.owner[s] = n})
                    IN  Concat([i \in 1..Len(owned) |-> DocumentOrder(sh, owned[i])])
    IN  Concat([i \in 1..Len(L) |-> <<L[i]>> \o below(L[i])])

\* The shapes with subgraphs S: a subgraph hangs below a graph numbered lower,
\* and the nodes are numbered in document order (a node's number is only its
\* identity).
ShapesWith(S) ==
    {sh \in [parent : [NodeIds -> {Root} \cup S], owner : [S -> NodeIds]] :
        /\ \A s \in S : sh.parent[sh.owner[s]] < s
        /\ DocumentOrder(sh, Root) = [i \in NodeIds |-> i]}

InputLists == {<<>>} \cup {<<x>> : x \in Names \cup {Empty}}
                \cup {<<x, y>> : x \in Names, y \in Names}
OutputLists == {<<>>} \cup {<<x>> : x \in Names}
NodeContents == [input : InputLists, output : OutputLists, other : BOOLEAN]
GraphDecls == [input : SUBSET Names, initializer : SUBSET Names]
NoDecl == [input |-> {}, initializer |-> {}]

\* The size of a graph: its non-empty input references, its outputs, its
\* non-graph attributes and its declared inputs and initializers.
NodeCost(c) == Cardinality({i \in DOMAIN c.input : c.input[i] # Empty})
                 + Len(c.output) + (IF c.other THEN 1 ELSE 0)
DeclCost(d) == Cardinality(d.input) + Cardinality(d.initializer)

RECURSIVE FillNodes(_, _)
FillNodes(k, budget) ==
    IF k = 0 THEN {[cost |-> 0, seq |-> <<>>]}
    ELSE UNION {{[cost |-> r.cost + NodeCost(c), seq |-> <<c>> \o r.seq] :
                    r \in FillNodes(k - 1, budget - NodeCost(c))} :
                c \in {c \in NodeContents : NodeCost(c) <= budget}}

RECURSIVE FillDecls(_, _)
FillDecls(k, budget) ==
    IF k = 0 THEN {<<>>}
    ELSE UNION {{<<d>> \o r : r \in FillDecls(k - 1, budget - DeclCost(d))} :
                d \in {d \in GraphDecls : DeclCost(d) <= budget}}

\* decls[g + 1] declares graph g
BuildGraph(sh, decls) ==
    [g \in {Root} \cup DOMAIN sh.owner |->
        [input |-> decls[g + 1].input, initializer |-> decls[g + 1].initializer,
         node |-> sorted({n \in NodeIds : sh.parent[n] = g})]]

BuildNode(sh, contents) ==
    [n \in NodeIds |->
        LET owned == sorted({s \in DOMAIN sh.owner : sh.owner[s] = n})
        IN  [input |-> contents[n].input, output |-> contents[n].output,
             attribute |-> (IF contents[n].other THEN <<OtherAttr>> ELSE <<>>)
                             \o [i \in 1..Len(owned) |-> GraphAttr(owned[i])]]]

\* get_producer_consumer_maps is called on a graph (line 271)
Init ==
    /\ \E sh \in ShapesWith(SubIds) : \E nc \in FillNodes(MaxNodes, MaxSize) :
       \E dc \in FillDecls(Cardinality(SubIds) + 1, MaxSize - nc.cost) :
         /\ graph = BuildGraph(sh, dc)
         /\ node = BuildNode(sh, nc.seq)
    /\ stack = <<Frame(Root, 1, NoDict, {})>>
    /\ node_to_producers = NoDict /\ node_to_consumers = NoDict
    /\ returned = [g \in DOMAIN graph |-> {}]
    /\ result = "running" /\ message = <<>>
    /\ run = 1 /\ removed = Empty
    /\ IdleTraversal /\ IdleDims /\ IdleFixed

Next ==
    \/ Descend
    \/ Return
    \/ ProcessInput
    \/ RecordOutputs
    \/ Finish
    \/ RemoveInputAndRerun

Spec == Init /\ [][Next]_vars

\* ----------------------------------------------- iterate_graph_per_node_func
TTop == tstack[Len(tstack)]
TNode == graph[TTop.g].node[TTop.idx]
TInLoop == tstack # <<>> /\ TTop.idx <= Len(graph[TTop.g].node)
TFrame(g) == [g |-> g, idx |-> 1, called |-> FALSE, attr |-> 1]

\* line 18: per_node_func(node)
Visit ==
    /\ pass \in {1, 2} /\ TInLoop /\ ~TTop.called
    /\ visited' = Append(visited, TNode)
    /\ tstack' = [tstack EXCEPT ![Len(tstack)].called = TRUE]
    /\ UNCHANGED <<graph, node, first_pass, pass, depVars, dimVars, fixVars>>

\* lines 20-22: the recursive call for the next attribute that holds a graph
Enter ==
    /\ pass \in {1, 2} /\ TInLoop /\ TTop.called
    /\ NextG(TNode, TTop.attr) # 0
    /\ LET a == NextG(TNode, TTop.attr)
       IN  tstack' = Append([tstack EXCEPT ![Len(tstack)].attr = a + 1],
                            TFrame(node[TNode].attribute[a].g))
    /\ UNCHANGED <<graph, node, visited, first_pass, pass, depVars, dimVars, fixVars>>

\* line 17: the attributes are exhausted, the loop takes the next node
NextSibling ==
    /\ pass \in {1, 2} /\ TInLoop /\ TTop.called
    /\ NextG(TNode, TTop.attr) = 0
    /\ tstack' = [tstack EXCEPT ![Len(tstack)] =
                     [g |-> TTop.g, idx |-> TTop.idx + 1, called |-> FALSE, attr |-> 1]]
    /\ UNCHANGED <<graph, node, visited, first_pass, pass, depVars, dimVars, fixVars>>

\* a recursive call has gone through its node list and returns
Leave ==
    /\ pass \in {1, 2} /\ Len(tstack) > 1
    /\ TTop.idx > Len(graph[TTop.g].node)
    /\ tstack' = SubSeq(tstack, 1, Len(tstack) - 1)
    /\ UNCHANGED <<graph, node, visited, first_pass, pass, depVars, dimVars, fixVars>>

\* the outermost call returns; the unchanged graph is then traversed again
EndTraversal ==
    /\ pass \in {1, 2} /\ Len(tstack) = 1
    /\ TTop.idx > Len(graph[TTop.g].node)
    /\ IF pass = 1
       THEN /\ first_pass' = visited /\ visited' = <<>>
            /\ tstack' = <<TFrame(Root)>>
       ELSE /\ tstack' = <<>>
            /\ UNCHANGED <<first_pass, visited>>
    /\ pass' = pass + 1
    /\ UNCHANGED <<graph, node, depVars, dimVars, fixVars>>

InitTraverse ==
    /\ \E sh \in ShapesWith(TraverseSubIds) : \E other \in [NodeIds -> BOOLEAN] :
         /\ graph = BuildGraph(sh, [g \in 1..(Cardinality(TraverseSubIds) + 1) |-> NoDecl])
         /\ node = BuildNode(sh, [n \in NodeIds |->
                                    [input |-> <<>>, output |-> <<>>, other |-> other[n]]])
    /\ tstack = <<TFrame(Root)>> /\ visited = <<>> /\ first_pass = <<>> /\ pass = 1
    /\ IdleDependencies /\ IdleDims /\ IdleFixed

NextTraverse ==
    \/ Visit
    \/ Enter
    \/ NextSibling
    \/ Leave
    \/ EndTraversal

SpecTraverse == InitTraverse /\ [][NextTraverse]_vars

\* ------------------------------------------------------------ dimension fixer
\* A dimension holds a dim_value, a dim_param (a symbolic name) or neither.
DimValue(v) == [f |-> "dim_value", v |-> v]
DimParam(p) == [f |-> "dim_param", v |-> p]
DimNone == [f |-> "none", v |-> 0]

DimValues == {1, 2}
DimOptions == {DimNone} \cup {DimValue(v) : v \in DimValues}
                \cup {DimParam(p) : p \in Names}
Slots == {"input", "output", "value_info"}

\* The graphs per_graph_func is called with, in call order
\* (iterate_graph_per_graph_func, lines 33-39).
graphs_reached_root_only(g) == <<g>>

RECURSIVE iterate_graph_per_graph_func(_)
iterate_graph_per_graph_func(g) ==
    LET L == graph[g].node
        below(n) == LET A == node[n].attribute
                    IN  Concat([i \in 1..Len(A) |->
                                   IF A[i].hasG THEN iterate_graph_per_graph_func(A[i].g)
                                   ELSE <<>>])
    IN  <<g>> \o Concat([i \in 1..Len(L) |-> below(L[i])])

graphs_reached(g) == iterate_graph_per_graph_func(g)

\* update_dim_values, lines 105-113 (`if shape:` holds for every message)
update_dim_values(value_infos, param_to_replace, v) ==
    [i \in DOMAIN value_infos |->
        IF value_infos[i].tensor
        THEN [value_infos[i] EXCEPT !.dim =
                 [k \in DOMAIN @ |->
                     IF @[k].f = "dim_param" /\ @[k].v = param_to_replace
                     THEN DimValue(v) ELSE @[k]]]
        ELSE value_infos[i]]

\* _replace_symbolic_dim_value, lines 101-117, on the lists of one graph
replace_symbolic_dim_value(G, dim_param, v) ==
    [input |-> update_dim_values(G.input, dim_param, v),
     output |-> update_dim_values(G.output, dim_param, v),
     value_info |-> update_dim_values(G.value_info, dim_param, v)]

RECURSIVE ApplyToGraphs(_, _, _, _)
ApplyToGraphs(T, gs, dim_param, v) ==
    IF gs = <<>> THEN T
    ELSE ApplyToGraphs([T EXCEPT ![Head(gs)] = replace_symbolic_dim_value(@, dim_param, v)],
                       Tail(gs), dim_param, v)

\* _make_dim_param_fixed, lines 120-127
make_dim_param_fixed(T, param_name, v) ==
    ApplyToGraphs(T, graphs_reached(Root), param_name, v)

\* line 152: the loop reads the dimension as it is now, after the updates the
\* earlier iterations made
dim_as_first_read(T, B, tgt, i) == B[Root].input[tgt].dim[i + 1]

current_dim(T, B, tgt, i) == T[Root].input[tgt].dim[i + 1]

\* lines 154-165: one iteration; ok is FALSE when the ValueError is raised
fix_dim_writes_then_raises(T, d, tgt, i, want) ==
    IF d.f = "dim_param"
    THEN [tensors |-> make_dim_param_fixed(T, d.v, want), ok |-> TRUE]
    ELSE [tensors |-> [T EXCEPT ![Root].input[tgt].dim[i + 1] = DimValue(want)],
          ok |-> d.f = "none" \/ d.v = want]

fix_dim(T, d, tgt, i, want) ==
    IF d.f = "dim_value"
    THEN [tensors |-> T, ok |-> d.v = want]
    ELSE IF d.f = "dim_param"
    THEN [tensors |-> make_dim_param_fixed(T, d.v, want), ok |-> TRUE]
    ELSE [tensors |-> [T EXCEPT ![Root].input[tgt].dim[i + 1] = DimValue(want)],
          ok |-> TRUE]

\* make_dynamic_shape_fixed with dim_param, line 180
MakeDimParamFixed ==
    /\ pc = "start" /\ call.op = "dim_param"
    /\ tensors' = make_dim_param_fixed(tensors, call.name, call.v)
    /\ pc' = "done" /\ outcome' = "returned"
    /\ UNCHANGED <<graph, node, before, call, idx, target, depVars, travVars, fixVars>>

\* lines 140-151 and 170: the first input of that name, the checks before the loop
FindInput ==
    /\ pc = "start" /\ call.op = "input_shape"
    /\ LET I == tensors[Root].input
           M == {i \in DOMAIN I : I[i].name = call.name}
           first == CHOOSE i \in M : \A j \in M : i <= j
       IN  IF M = {}
           THEN pc' = "done" /\ outcome' = "not_found" /\ UNCHANGED <<idx, target>>
           ELSE IF ~I[first].tensor
           THEN pc' = "done" /\ outcome' = "not_tensor" /\ UNCHANGED <<idx, target>>
           ELSE IF Len(I[first].dim) # Len(call.shape)
           THEN pc' = "done" /\ outcome' = "rank_mismatch" /\ UNCHANGED <<idx, target>>
           ELSE pc' = "loop" /\ idx' = 0 /\ target' = first /\ UNCHANGED outcome
    /\ UNCHANGED <<graph, node, tensors, before, call, depVars, travVars, fixVars>>

\* lines 152-167: one iteration of `for dim in shape.dim`
FixDim ==
    /\ pc = "loop" /\ idx < Len(tensors[Root].input[target].dim)
    /\ LET r == fix_dim(tensors, current_dim(tensors, before, target, idx),
                        target, idx, call.shape[idx + 1])
       IN  /\ tensors' = r.tensors
           /\ IF r.ok
              THEN idx' = idx + 1 /\ UNCHANGED <<pc, outcome>>
              ELSE pc' = "done" /\ outcome' = "conflict" /\ UNCHANGED idx
    /\ UNCHANGED <<graph, node, before, call, target, depVars, travVars, fixVars>>

\* line 168
EndLoop ==
    /\ pc = "loop" /\ idx = Len(tensors[Root].input[target].dim)
    /\ pc' = "done" /\ outcome' = "returned"
    /\ UNCHANGED <<graph, node, tensors, before, call, idx, target,
                   depVars, travVars, fixVars>>

\* The value infos of the initial graphs: up to MaxInfos of them, each placed
\* in one list of one graph, with MaxDims dimensions together.
\* Only the names of graph inputs are ever read (lines 141 and 171).
InfoPlaces == [g : {Root} \cup SubIds, slot : {"input"}, name : Names]
                \cup [g : {Root} \cup SubIds, slot : Slots \ {"input"}, name : {1}]

RECURSIVE FillInfos(_, _)
FillInfos(k, budget) ==
    {<<>>} \cup
    (IF k = 0 THEN {}
     ELSE UNION {{<<[place |-> p, tensor |-> t.tensor, dim |-> t.dim]>> \o r :
                     r \in FillInfos(k - 1, budget - Len(t.dim))} :
                 p \in InfoPlaces,
                 t \in {[tensor |-> FALSE, dim |-> <<>>]} \cup
                       UNION {[tensor : {TRUE}, dim : [1..n -> DimOptions]] :
                                 n \in 0..budget}})

RECURSIVE InfosAt(_, _, _)
InfosAt(infos, g, slot) ==
    IF infos = <<>> THEN <<>>
    ELSE (IF Head(infos).place.g = g /\ Head(infos).place.slot = slot
          THEN <<[name |-> Head(infos).place.name, tensor |-> Head(infos).tensor,
                  dim |-> Head(infos).dim]>>
          ELSE <<>>) \o InfosAt(Tail(infos), g, slot)

BuildTensors(infos) ==
    [g \in {Root} \cup SubIds |->
        [input |-> InfosAt(infos, g, "input"), output |-> InfosAt(infos, g, "output"),
         value_info |-> InfosAt(infos, g, "value_info")]]

Calls ==
    [op : {"dim_param"}, name : Names, v : DimValues, shape : {<<>>}]
    \cup UNION {[op : {"input_shape"}, name : Names, v : {0},
                 shape : [1..n -> DimValues]] : n \in 0..MaxDims}

\* The graphs whose subgraph hangs below a node of the root graph, behind an
\* attribute that holds no graph.
InitDims ==
    /\ \E sh \in {s \in ShapesWith(SubIds) : \A n \in NodeIds : s.parent[n] = Root} :
         /\ graph = BuildGraph(sh, [g \in 1..(Cardinality(SubIds) + 1) |-> NoDecl])
         /\ node = BuildNode(sh, [n \in NodeIds |->
                                    [input |-> <<>>, output |-> <<>>,
                                     other |-> sh.owner[1] = n]])
    /\ \E infos \in FillInfos(MaxInfos, MaxDims) : tensors = BuildTensors(infos)
    /\ before = tensors
    /\ call \in Calls
    /\ pc = "start" /\ idx = 0 /\ target = 0 /\ outcome = "none"
    /\ IdleDependencies /\ IdleTraversal /\ IdleFixed

NextDims ==
    \/ MakeDimParamFixed
    \/ FindInput
    \/ FixDim
    \/ EndLoop

SpecDims == InitDims /\ [][NextDims]_vars

\* ------------------------------------------------------- is_fixed_size_tensor
FixedDimOptions == {DimNone} \cup {DimValue(v) : v \in -1..2}
                     \cup {DimParam(p) : p \in Names}

\* value.type has a tensor_type or not; a tensor type has a shape or not; a
\* shape that is not there has no dimensions.
FixedValues ==
    {[tensor |-> FALSE, shape |-> FALSE, dim |-> <<>>],
     [tensor |-> TRUE, shape |-> FALSE, dim |-> <<>>]}
    \cup UNION {[tensor : {TRUE}, shape : {TRUE}, dim : [1..n -> FixedDimOptions]] :
                   n \in 0..MaxRank}

\* line 291, `if shape:`.  shape is a protobuf message (TensorShapeProto); the
\* message classes define neither __bool__ nor __len__, so the object is true
\* whether or not the shape field is set (an unset field reads as an empty
\* message).
shape_is_true(v) == TRUE

\* lines 288-292
StartFixed ==
    /\ fpc = "start"
    /\ IF value.tensor /\ shape_is_true(value)
       THEN is_fixed' = TRUE /\ fpc' = "dims" /\ fidx' = 1
       ELSE is_fixed' = FALSE /\ fpc' = "done" /\ UNCHANGED fidx
    /\ UNCHANGED <<graph, node, value, depVars, travVars, dimVars>>

\* lines 293-299: one iteration of `for dim in shape.dim`
CheckDim ==
    /\ fpc = "dims" /\ fidx <= Len(value.dim)
    /\ IF value.dim[fidx].f = "dim_value" /\ value.dim[fidx].v > 0
       THEN fidx' = fidx + 1 /\ UNCHANGED <<is_fixed, fpc>>
       ELSE is_fixed' = FALSE /\ fpc' = "done" /\ UNCHANGED fidx
    /\ UNCHANGED <<graph, node, value, depVars, travVars, dimVars>>

\* line 301
ReturnFixed ==
    /\ fpc = "dims" /\ fidx > Len(value.dim)
    /\ fpc' = "done"
    /\ UNCHANGED <<graph, node, value, is_fixed, fidx, depVars, travVars, dimVars>>

InitFixed ==
    /\ value \in FixedValues
    /\ is_fixed = FALSE /\ fpc = "start" /\ fidx = 0
    /\ graph = <<>> /\ node = <<>>
    /\ IdleDependencies /\ IdleTraversal /\ IdleDims

NextFixed ==
    \/ StartFixed
    \/ CheckDim
    \/ ReturnFixed

SpecFixed == InitFixed /\ [][NextFixed]_vars

\* ---------------------------------------------------------------------------
\* What the analysis is expected to compute, stated on the graph alone.
Done == result # "running"

ParentOf(n) == CHOOSE g \in DOMAIN graph : n \in Range(graph[g].node)
PosOf(n) == CHOOSE i \in 1..Len(graph[ParentOf(n)].node) : graph[ParentOf(n)].node[i] = n
NodesIn(g) == Range(graph[g].node)
Outputs(n) == Range(node[n].output)
OwnInputs(n) == Range(node[n].input) \ {Empty}
SubgraphsOf(n) == {node[n].attribute[i].g : i \in {j \in DOMAIN node[n].attribute :
                                                      node[n].attribute[j].hasG}}
OwnerOf(s) == CHOOSE n \in NodeIds : s \in SubgraphsOf(n)
Declared(g) == graph[g].input \cup graph[g].initializer

\* The names a graph leaves unresolved: referenced by one of its nodes (or left
\* unresolved by a subgraph of that node), not declared by the graph and not
\* an output of a node listed before the referencing one.
RECURSIVE ImplicitOf(_)
ImplicitOf(g) ==
    LET L == graph[g].node
        eff(n) == OwnInputs(n) \cup UNION {ImplicitOf(s) : s \in SubgraphsOf(n)}
    IN  {x \in Names : \E k \in 1..Len(L) :
            /\ x \in eff(L[k])
            /\ x \notin Declared(g)
            /\ \A j \in 1..(k - 1) : x \notin Outputs(L[j])}

EffInputs(n) == OwnInputs(n) \cup UNION {ImplicitOf(s) : s \in SubgraphsOf(n)}

\* The last node strictly before n, in n's own node list, that outputs x
\* (a set with at most one element).
LastProducerBefore(n, x) ==
    {p \in NodesIn(ParentOf(n)) :
        /\ PosOf(p) < PosOf(n) /\ x \in Outputs(p)
        /\ \A q \in NodesIn(ParentOf(n)) :
              (PosOf(p) < PosOf(q) /\ PosOf(q) < PosOf(n)) => x \notin Outputs(q)}

ExpectedProducers(n) == UNION {LastProducerBefore(n, x) : x \in EffInputs(n)}

IsAscending(s) == \A i \in 1..(Len(s) - 1) : s[i] < s[i + 1]

\* C1: at every moment of the analysis, b is a consumer of a exactly when a is
\* a producer of b (a missing key counts as the empty set).
MirrorInvariant ==
    \A a \in NodeIds, b \in NodeIds :
        b \in Get(node_to_consumers, a) <=> a \in Get(node_to_producers, b)

\* C1 witness: in the middle of an analysis a link exists between two nodes of
\* a nested subgraph.
MirrorWitness ==
    /\ result = "running"
    /\ \E a \in NodeIds, b \in NodeIds :
          /\ b \in Get(node_to_consumers, a) /\ a \in Get(node_to_producers, b)
          /\ ParentOf(a) # Root

\* C2 as stated: a graph whose every non-empty node input is an output of some
\* other node of the same graph (at any position), a declared input or an
\* initializer of that graph is accepted.
ResolvableAnywhere ==
    \A n \in NodeIds : \A x \in OwnInputs(n) :
        \/ x \in Declared(ParentOf(n))
        \/ \E p \in NodesIn(ParentOf(n)) \ {n} : x \in Outputs(p)

AcceptsWhateverThePosition == (Done /\ ResolvableAnywhere) => result = "returned"

\* C2 amended: a graph whose every non-empty node input is an output of a node
\* listed earlier in the same graph, a declared input or an initializer of that
\* graph is accepted.
ResolvableBefore ==
    \A n \in NodeIds : \A x \in OwnInputs(n) :
        \/ x \in Declared(ParentOf(n))
        \/ LastProducerBefore(n, x) # {}

AcceptsResolvedGraphs == (Done /\ ResolvableBefore) => result = "returned"

\* C2 witness: an accepted graph in which a node of a subgraph consumes the
\* output of an earlier node of that subgraph.
AcceptsWitness ==
    /\ result = "returned" /\ ResolvableBefore
    /\ \E n \in NodeIds : \E x \in OwnInputs(n) :
          /\ ParentOf(n) # Root /\ x \notin Declared(ParentOf(n))
          /\ LastProducerBefore(n, x) # {}

\* C3, first part: the call raises exactly when the root's implicit-input set
\* is non-empty, and the message lists the unresolved names once each in
\* ascending order.
RaisesIffUnresolved ==
    Done =>
        /\ (result = "raised") <=> (returned[Root] # {})
        /\ returned[Root] = ImplicitOf(Root)
        /\ Range(message) = returned[Root]
        /\ IsAscending(message)

\* C3 as stated: after removing from an accepted graph a declared root input
\* that some node references and no node produces, the call raises naming
\* exactly that input.
RemovalAsStated ==
    /\ RaisesIffUnresolved
    /\ (Done /\ run = 2
          /\ (\E n \in NodeIds : removed \in OwnInputs(n))
          /\ (\A n \in NodeIds : removed \notin Outputs(n)))
        => (result = "raised" /\ message = <<removed>>)

\* C3 amended: the first part, and after removing from an accepted graph a
\* declared root input that is not also a root initializer, that no node
\* produces and that a root node references (itself or through a reference its
\* subgraphs leave unresolved), the call raises naming exactly that input.
RemovalNamesTheInput ==
    /\ RaisesIffUnresolved
    /\ (Done /\ run = 2
          /\ removed \notin graph[Root].initializer
          /\ (\E n \in NodesIn(Root) : removed \in EffInputs(n))
          /\ (\A n \in NodeIds : removed \notin Outputs(n)))
        => (result = "raised" /\ message = <<removed>>)

\* C3 witness: the second call raised naming the removed input, which only a
\* node inside a subgraph references.
RemovalWitness ==
    /\ Done /\ run = 2 /\ result = "raised" /\ message = <<removed>>
    /\ removed \notin graph[Root].initializer
    /\ \A n \in NodesIn(Root) : removed \notin OwnInputs(n)
    /\ \E n \in NodesIn(Root) : removed \in EffInputs(n)

OnlyReferencedInside(s, x) ==
    /\ \E i \in NodesIn(s) : x \in OwnInputs(i)
    /\ \A n \in NodeIds : x \in OwnInputs(n) => ParentOf(n) = s
    /\ x \notin Declared(s)
    /\ \A i \in NodesIn(s) : x \notin Outputs(i)

ResolvedThroughOwner(s, x, p) ==
    LET owner == OwnerOf(s)
    IN  /\ p \in Get(node_to_producers, owner)
        /\ owner \in Get(node_to_consumers, p)
        /\ \A i \in NodesIn(s) : \A q \in Get(node_to_producers, i) : x \notin Outputs(q)
        /\ x \notin returned[ParentOf(owner)]

\* C5 as stated: whenever such an x is produced by a node p of the enclosing
\* graph (here even its only producer there, and another node than the owner
\* of s), the owner of s is linked to p and x is not an implicit input of the
\* enclosing graph.
NestedAsStated ==
    Done =>
        \A s \in SubIds, x \in Names, p \in NodeIds :
            (/\ OnlyReferencedInside(s, x)
             /\ ParentOf(p) = ParentOf(OwnerOf(s)) /\ x \in Outputs(p)
             /\ p # OwnerOf(s)
             /\ \A q \in NodesIn(ParentOf(p)) : x \in Outputs(q) => q = p)
            => ResolvedThroughOwner(s, x, p)

\* C5 amended: the same when p is the last node listed before the owner of s,
\* in the enclosing graph, that outputs x.
NestedScopeResolution ==
    Done =>
        \A s \in SubIds, x \in Names, p \in NodeIds :
            (OnlyReferencedInside(s, x) /\ p \in LastProducerBefore(OwnerOf(s), x))
            => ResolvedThroughOwner(s, x, p)

\* C5 witness: such a case has been analysed.
NestedWitness ==
    /\ Done
    /\ \E s \in SubIds, x \in Names, p \in NodeIds :
          /\ OnlyReferencedInside(s, x) /\ p \in LastProducerBefore(OwnerOf(s), x)
          /\ ResolvedThroughOwner(s, x, p)

\* ---------------------------------------------------------------------------
\* The traversal.
RECURSIVE Descendants(_)
Descendants(n) ==
    UNION {NodesIn(s) \cup UNION {Descendants(m) : m \in NodesIn(s)} :
              s \in SubgraphsOf(n)}

At(n) == CHOOSE i \in DOMAIN visited : visited[i] = n

\* C6: a traversal calls the callback once for every node, in depth-first
\* pre-order: the nodes of a list in list order, a node before the nodes of its
\* subgraphs, these before the node's next sibling; a second traversal of the
\* unchanged graph makes the same calls in the same order.
TraversalOrder ==
    pass = 3 =>
        /\ Len(visited) = Cardinality(NodeIds) /\ Range(visited) = NodeIds
        /\ \A n \in NodeIds, m \in NodeIds :
              (ParentOf(n) = ParentOf(m) /\ PosOf(n) < PosOf(m)) =>
                  /\ At(n) < At(m)
                  /\ \A d \in Descendants(n) : At(d) < At(m)
        /\ \A n \in NodeIds : \A d \in Descendants(n) : At(n) < At(d)
        /\ first_pass = visited

\* C6 witness: both traversals are done on a graph with a node that holds a
\* non-graph attribute before its non-empty subgraph and has a next sibling.
TraversalWitness ==
    /\ pass = 3
    /\ \E n \in NodeIds, m \in NodeIds :
          /\ ParentOf(n) = ParentOf(m) /\ PosOf(n) < PosOf(m)
          /\ Descendants(n) # {}
          /\ ~node[n].attribute[1].hasG

\* ---------------------------------------------------------------------------
\* The dimension fixer.
InfoAt(T, g, slot, i) == T[g][slot][i]

SameLayout ==
    \A g \in DOMAIN before : \A slot \in Slots :
        /\ Len(tensors[g][slot]) = Len(before[g][slot])
        /\ \A i \in DOMAIN before[g][slot] :
              /\ InfoAt(tensors, g, slot, i).name = InfoAt(before, g, slot, i).name
              /\ InfoAt(tensors, g, slot, i).tensor = InfoAt(before, g, slot, i).tensor
              /\ Len(InfoAt(tensors, g, slot, i).dim) = Len(InfoAt(before, g, slot, i).dim)

\* Every dimension of every value info satisfies P(g, slot, i, k, before, after).
EveryDim(P(_, _, _, _, _, _)) ==
    \A g \in DOMAIN before : \A slot \in Slots : \A i \in DOMAIN before[g][slot] :
        \A k \in DOMAIN InfoAt(before, g, slot, i).dim :
            P(g, slot, i, k, InfoAt(before, g, slot, i).dim[k],
              InfoAt(tensors, g, slot, i).dim[k])

SomeDim(P(_, _, _, _, _, _)) ==
    \E g \in DOMAIN before : \E slot \in Slots : \E i \in DOMAIN before[g][slot] :
        \E k \in DOMAIN InfoAt(before, g, slot, i).dim :
            P(g, slot, i, k, InfoAt(before, g, slot, i).dim[k],
              InfoAt(tensors, g, slot, i).dim[k])

Failed == outcome \in {"not_found", "not_tensor", "rank_mismatch", "conflict"}

\* C7 as stated: when _make_input_shape_fixed fails, every dimension of the
\* graph and its subgraphs is as it was before the call.
FailureLeavesGraphUntouched == Failed => tensors = before

\* C7 amended: a failure before the loop (input not found, not a tensor, rank
\* mismatch) leaves every dimension as it was.  A conflict at position idx + 1
\* leaves the positions before it fixed to the requested values, with every
\* dimension that carried the symbolic name of such a position set to that
\* position's value, and changes nothing else.
FailureKeepsEarlierFixes ==
    /\ outcome \in {"not_found", "not_tensor", "rank_mismatch"} => tensors = before
    /\ outcome = "conflict" =>
          LET old == before[Root].input[target].dim
              new == tensors[Root].input[target].dim
              Allowed(g, slot, i, k, b, a) ==
                  \/ a = b
                  \/ \E j \in 1..idx :
                        /\ a = DimValue(call.shape[j])
                        /\ \/ b.f = "dim_param" /\ old[j] = b
                           \/ /\ b.f = "none"
                              /\ <<g, slot, i, k>> = <<Root, "input", target, j>>
              Propagated(g, slot, i, k, b, a) ==
                  \A j \in 1..idx :
                      (b.f = "dim_param" /\ old[j] = b /\ \A h \in 1..(j - 1) : old[h] # b)
                          => a = DimValue(call.shape[j])
          IN  /\ SameLayout
              /\ EveryDim(Allowed)
              /\ EveryDim(Propagated)
              /\ \A j \in 1..idx : new[j] = DimValue(call.shape[j])
              /\ new[idx + 1].f = "dim_value" /\ new[idx + 1].v # call.shape[idx + 1]

\* C7 witness: a conflict was raised after a dimension had been fixed.
FailureWitness == outcome = "conflict" /\ tensors # before /\ idx > 0

\* C8: _make_dim_param_fixed(graph, name, value) turns every dimension named
\* `name`, in the inputs, outputs and value infos of the graph and of its
\* subgraphs, into the value, and leaves every other dimension and the rest of
\* the value infos as they were; no dimension is named `name` afterwards.
DimParamFixedEverywhere ==
    (pc = "done" /\ call.op = "dim_param") =>
        LET Fixed(g, slot, i, k, b, a) ==
                /\ a = IF b = DimParam(call.name) THEN DimValue(call.v) ELSE b
                /\ a # DimParam(call.name)
        IN  SameLayout /\ EveryDim(Fixed)

\* C8 witness: a dimension of a subgraph carried the name and a dimension
\* carried another name.
DimParamWitness ==
    /\ pc = "done" /\ call.op = "dim_param"
    /\ LET InSub(g, slot, i, k, b, a) == g # Root /\ b = DimParam(call.name)
           OtherName(g, slot, i, k, b, a) == b.f = "dim_param" /\ b.v # call.name
       IN  SomeDim(InSub) /\ SomeDim(OtherName)

\* C10: when _make_input_shape_fixed returns, the first input of that name has
\* the rank of fixed_shape and the value fixed_shape[k] at every position k; a
\* request that gives two positions of one symbolic name different values does
\* not return.
InputShapeIsTheRequest ==
    (outcome = "returned" /\ call.op = "input_shape") =>
        LET I == tensors[Root].input
            M == {i \in DOMAIN I : I[i].name = call.name}
            first == CHOOSE i \in M : \A j \in M : i <= j
            old == before[Root].input[first].dim
        IN  /\ M # {}
            /\ Len(I[first].dim) = Len(call.shape)
            /\ \A k \in DOMAIN call.shape : I[first].dim[k] = DimValue(call.shape[k])
            /\ \A j \in DOMAIN old, k \in DOMAIN old :
                  (old[j].f = "dim_param" /\ old[j] = old[k])
                      => call.shape[j] = call.shape[k]

\* C10 witness: the call returned for an input whose two positions carried the
\* same symbolic name.
InputShapeWitness ==
    /\ outcome = "returned" /\ call.op = "input_shape"
    /\ \E p \in Names : before[Root].input[target].dim = <<DimParam(p), DimParam(p)>>
    /\ target = 2

\* ---------------------------------------------------------------------------
\* C9: is_fixed_size_tensor returns true exactly when the value has a tensor
\* type, a declared shape, and a concrete value greater than zero in every
\* dimension.
FixedIffDeclaredAndPositive ==
    fpc = "done" =>
        (is_fixed <=> (/\ value.tensor /\ value.shape
                       /\ \A k \in DOMAIN value.dim :
                             value.dim[k].f = "dim_value" /\ value.dim[k].v > 0))
====
